---------------------------- MODULE Spec2Model ----------------------------
(***************************************************************************)
(* Exercise tracker REST backend (src/index.js, src/models/exercise.js,    *)
(* user schema in src/unnamed/part_000).                                   *)
(*                                                                         *)
(* Values of the JavaScript runtime are records [t, s, n]: t is the type   *)
(* tag, s the characters of a string (or the string conversion of an       *)
(* array), n the number of a number or the time value of a Date.  Strings  *)
(* are sequences of one-character strings.  NaN has its own tag.           *)
(* Time values are counted in ticks of half a day (TicksPerDay ticks make  *)
(* one calendar day); dates are rendered in UTC.                           *)
(***************************************************************************)
EXTENDS Integers, Sequences, FiniteSets, Bags, TLC

VARIABLES server, users, exercises, now, inflight, resp, acked, ackedEx

\* server     "connecting", "listening" or "failed"
\* users      the users collection, in insertion order
\* exercises  the exercises collection, in insertion order
\* now        the clock, Date.now()
\* inflight   the bag of requests being handled
\* resp       the response being sent, NoResp between responses
\* acked      history: {username, _id} of every 200 create-user response
\* ackedEx    history: every 200 create-exercise response, in order, with the
\*            path id of its request and whether the request had no date

vars == <<server, users, exercises, now, inflight, resp, acked, ackedEx>>

---------------------------------------------------------------------------
(* JavaScript values *)

Undefined == [t |-> "undefined", s |-> <<>>, n |-> 0]
NaN == [t |-> "NaN", s |-> <<>>, n |-> 0]
StrV(s) == [t |-> "string", s |-> s, n |-> 0]
NumV(n) == [t |-> "number", s |-> <<>>, n |-> n]
DateV(n) == [t |-> "date", s |-> <<>>, n |-> n]
ArrV(s) == [t |-> "array", s |-> s, n |-> 0]

\* ToBoolean: undefined, NaN, 0 and "" are falsy, everything else is truthy
Truthy(v) ==
  CASE v.t = "undefined" -> FALSE
    [] v.t = "NaN" -> FALSE
    [] v.t = "string" -> v.s # <<>>
    [] v.t = "number" -> v.n # 0
    [] OTHER -> TRUE

\* a && b
AndAnd(a, b) == IF Truthy(a) THEN b ELSE a

\* a > b on numbers: false when either side is NaN
Gt(a, b) == a.t = "number" /\ b.t = "number" /\ a.n > b.n

\* ToString, as parseInt and Date.parse apply it to their argument
ToStr(v) ==
  CASE v.t = "undefined" -> <<"u","n","d","e","f","i","n","e","d">>
    [] v.t = "NaN" -> <<"N","a","N">>
    [] OTHER -> v.s

IsSpace(c) == c = " "
IsDigit(c) == c \in {"0","1","2","3","4","5","6","7","8","9"}
DigitVal(c) ==
  CASE c = "0" -> 0 [] c = "1" -> 1 [] c = "2" -> 2 [] c = "3" -> 3
    [] c = "4" -> 4 [] c = "5" -> 5 [] c = "6" -> 6 [] c = "7" -> 7
    [] c = "8" -> 8 [] c = "9" -> 9

RECURSIVE TrimStart(_)
TrimStart(s) ==
  IF s # <<>> /\ IsSpace(Head(s)) THEN TrimStart(Tail(s)) ELSE s

RECURSIVE TrimEnd(_)
TrimEnd(s) ==
  IF s # <<>> /\ IsSpace(s[Len(s)]) THEN TrimEnd(SubSeq(s, 1, Len(s) - 1)) ELSE s

\* String.prototype.trim
Trim(s) == TrimEnd(TrimStart(s))

\* the longest prefix of decimal digits of s, as <<value, number of digits>>
RECURSIVE Digits(_, _, _)
Digits(s, acc, k) ==
  IF s # <<>> /\ IsDigit(Head(s))
    THEN Digits(Tail(s), 10 * acc + DigitVal(Head(s)), k + 1)
    ELSE <<acc, k>>

\* parseInt(v): leading white space skipped, an optional sign, then decimal
\* digits up to the first other character; NaN when there is no digit.
\* (Inputs with the hexadecimal prefix 0x are outside the alphabet used.)
ParseInt(v) ==
  LET s0 == TrimStart(ToStr(v))
      neg == s0 # <<>> /\ Head(s0) = "-"
      s1 == IF s0 # <<>> /\ Head(s0) \in {"-", "+"} THEN Tail(s0) ELSE s0
      d == Digits(s1, 0, 0)
  IN IF d[2] = 0 THEN NaN ELSE NumV(IF neg THEN 0 - d[1] ELSE d[1])

---------------------------------------------------------------------------
(* Dates *)

TicksPerDay == 2

\* days from 1970-01-01 to January 1st of year y (proleptic Gregorian)
DaysBeforeYear(y) ==
  365 * (y - 1970) + ((y - 1969) \div 4) - ((y - 1901) \div 100)
    + ((y - 1601) \div 400)

\* mutant: a parser that takes every string for a date
DateParseLenient(v) ==
  LET s == ToStr(v)
  IN IF Len(s) = 4 /\ \A i \in 1..4 : IsDigit(s[i])
       THEN NumV(DaysBeforeYear(Digits(s, 0, 0)[1]) * TicksPerDay)
       ELSE NumV(0)

\* Date.parse(v) for the year-only form YYYY of the ECMAScript date-time
\* string format; every other string used as an input here is one the
\* parser rejects (NaN).
DateParse(v) ==
  LET s == ToStr(v)
  IN IF Len(s) = 4 /\ \A i \in 1..4 : IsDigit(s[i])
       THEN NumV(DaysBeforeYear(Digits(s, 0, 0)[1]) * TicksPerDay)
       ELSE NaN

WeekdayName(i) ==
  CASE i = 0 -> "Sun" [] i = 1 -> "Mon" [] i = 2 -> "Tue" [] i = 3 -> "Wed"
    [] i = 4 -> "Thu" [] i = 5 -> "Fri" [] i = 6 -> "Sat"

MonthName(m) ==
  CASE m = 1 -> "Jan" [] m = 2 -> "Feb" [] m = 3 -> "Mar" [] m = 4 -> "Apr"
    [] m = 5 -> "May" [] m = 6 -> "Jun" [] m = 7 -> "Jul" [] m = 8 -> "Aug"
    [] m = 9 -> "Sep" [] m = 10 -> "Oct" [] m = 11 -> "Nov" [] m = 12 -> "Dec"

\* Date.prototype.toDateString of the time value ts: "Www Mmm DD YYYY".
\* The calendar day is the day that contains ts; the time of day is dropped.
toDateString(ts) ==
  LET day == ts \div TicksPerDay
      z == day + 719468
      era == z \div 146097
      doe == z - era * 146097
      yoe == (doe - (doe \div 1460) + (doe \div 36524) - (doe \div 146096)) \div 365
      doy == doe - (365 * yoe + (yoe \div 4) - (yoe \div 100))
      mp == (5 * doy + 2) \div 153
      d == doy - ((153 * mp + 2) \div 5) + 1
      m == IF mp < 10 THEN mp + 3 ELSE mp - 9
      y == yoe + era * 400 + (IF m <= 2 THEN 1 ELSE 0)
  IN [wd |-> WeekdayName((day + 4) % 7), mon |-> MonthName(m), day |-> d, year |-> y]

---------------------------------------------------------------------------
(* Validators *)

Ok(v) == [ok |-> TRUE, val |-> v, message |-> [text |-> "", arg |-> Undefined]]
Err(text, arg) == [ok |-> FALSE, val |-> Undefined, message |-> [text |-> text, arg |-> arg]]

\* mutant: the string is checked but returned as it came
parseStringNoTrim(str) ==
  IF str.t # "string" THEN Err("Input value is not string", Undefined)
  ELSE IF Trim(str.s) = <<>> THEN Err("Input value is empty character string", Undefined)
  ELSE Ok(str)

\* mutant: a string that is empty after trimming is returned
parseStringNoEmptyCheck(str) ==
  IF str.t # "string" THEN Err("Input value is not string", Undefined)
  ELSE Ok(StrV(Trim(str.s)))

parseString(str) ==
  IF str.t # "string" THEN Err("Input value is not string", Undefined)
  ELSE IF Trim(str.s) = <<>> THEN Err("Input value is empty character string", Undefined)
  ELSE Ok(StrV(Trim(str.s)))


IsHex(c) ==
  IsDigit(c) \/ c \in {"a","b","c","d","e","f"} \/ c \in {"A","B","C","D","E","F"}

LowerChar(c) ==
  CASE c = "A" -> "a" [] c = "B" -> "b" [] c = "C" -> "c" [] c = "D" -> "d"
    [] c = "E" -> "e" [] c = "F" -> "f" [] OTHER -> c

ObjectIdLen == 24

\* mongoose.Types.ObjectId.isValid on a string: 24 hexadecimal characters of
\* either case.  (12-character strings, which some driver versions accept as
\* raw bytes, are not among the inputs used.)
ObjectIdIsValid(v) ==
  v.t = "string" /\ Len(v.s) = ObjectIdLen /\ \A i \in 1..Len(v.s) : IsHex(v.s[i])

\* the ObjectId a 24-character hexadecimal string is cast to, in its
\* canonical (lower case) rendering
RECURSIVE castObjectId(_)
castObjectId(s) ==
  IF s = <<>> THEN <<>> ELSE <<LowerChar(Head(s))>> \o castObjectId(Tail(s))

\* parseId takes the result of parseString (the exception of parseString
\* propagates through it)
parseId(r) ==
  IF ~r.ok THEN r
  ELSE IF ~ObjectIdIsValid(r.val) THEN Err("Invalid ID: ", r.val)
  ELSE r

\* parseUsername: the username written back to req.body, or the 400 message
parseUsername(body) == parseString(body.username)

\* parseExerciseInput: req.params and req.body as the middleware leaves them,
\* or the message of the first exception thrown
parseExerciseInput(params, body) ==
  LET id == parseId(parseString(params._id))
      description == parseString(body.description)
      durStr == parseString(body.duration)
      duration == ParseInt(durStr.val)
      dateStr == parseString(body.date)
      date == DateParse(dateStr.val)
  IN IF ~id.ok THEN id
     ELSE IF ~description.ok THEN description
     ELSE IF ~durStr.ok THEN durStr
     ELSE IF duration.t = "NaN" THEN Err("duration is not a valid number", Undefined)
     ELSE IF Truthy(body.date) /\ ~dateStr.ok THEN dateStr
     ELSE IF Truthy(body.date) /\ date.t = "NaN" THEN Err("Invalid Date Format", Undefined)
     ELSE Ok([_id |-> id.val.s,
              description |-> description.val.s,
              duration |-> duration.n,
              date |-> IF Truthy(body.date) THEN DateV(date.n) ELSE body.date])

DEFAULT_LIMIT == 20
MAX_LIMIT == 50

\* mutant: the maximum itself refused, zero and negative limits passed on
normalizeLimitOffByOne(limit) ==
  LET parsedLimit == ParseInt(limit)
  IN IF limit.t # "undefined" /\ parsedLimit.t = "NaN" THEN Err("Invalid limit: ", limit)
     ELSE IF ~Gt(NumV(MAX_LIMIT), parsedLimit) THEN Err("limit cannot exceed ", NumV(MAX_LIMIT))
     ELSE Ok(AndAnd(limit, IF Gt(parsedLimit, NumV(0)) THEN parsedLimit ELSE NumV(DEFAULT_LIMIT)))

\* lines 398-404 of parseLogsInput: the limit written back to req.query
normalizeLimit(limit) ==
  LET parsedLimit == ParseInt(limit)
  IN IF limit.t # "undefined" /\ parsedLimit.t = "NaN" THEN Err("Invalid limit: ", limit)
     ELSE IF Gt(parsedLimit, NumV(MAX_LIMIT)) THEN Err("limit cannot exceed ", NumV(MAX_LIMIT))
     ELSE Ok(AndAnd(limit, IF Gt(parsedLimit, NumV(0)) THEN parsedLimit ELSE NumV(DEFAULT_LIMIT)))

\* mutant: the range is not checked for from later than to
normalizeRangeNoOrder(from, to) ==
  LET parsedFrom == DateParse(from)
      parsedTo == DateParse(to)
  IN IF (from.t # "undefined" /\ parsedFrom.t = "NaN")
          \/ (to.t # "undefined" /\ parsedTo.t = "NaN")
       THEN Err("Invalid Date Format", Undefined)
     ELSE Ok([from |-> AndAnd(from, parsedFrom), to |-> AndAnd(to, parsedTo)])

\* lines 406-415 of parseLogsInput: from and to written back to req.query
normalizeRange(from, to) ==
  LET parsedFrom == DateParse(from)
      parsedTo == DateParse(to)
  IN IF Gt(parsedFrom, parsedTo) THEN Err("'from' cannot be later than 'to'", Undefined)
     ELSE IF (from.t # "undefined" /\ parsedFrom.t = "NaN")
              \/ (to.t # "undefined" /\ parsedTo.t = "NaN")
       THEN Err("Invalid Date Format", Undefined)
     ELSE Ok([from |-> AndAnd(from, parsedFrom), to |-> AndAnd(to, parsedTo)])

\* mutant: the range is checked before the limit
parseLogsInputRangeFirst(params, query) ==
  LET id == parseId(parseString(params._id))
      limit == normalizeLimit(query.limit)
      range == normalizeRange(query.from, query.to)
  IN IF ~id.ok THEN id
     ELSE IF ~range.ok THEN range
     ELSE IF ~limit.ok THEN limit
     ELSE Ok([_id |-> id.val.s, from |-> range.val.from, to |-> range.val.to,
              limit |-> limit.val])

\* parseLogsInput: req.params._id and req.query as the middleware leaves them,
\* or the message of the 400 response
parseLogsInput(params, query) ==
  LET id == parseId(parseString(params._id))
      limit == normalizeLimit(query.limit)
      range == normalizeRange(query.from, query.to)
  IN IF ~id.ok THEN id
     ELSE IF ~limit.ok THEN limit
     ELSE IF ~range.ok THEN range
     ELSE Ok([_id |-> id.val.s, from |-> range.val.from, to |-> range.val.to,
              limit |-> limit.val])

---------------------------------------------------------------------------
(* The document store *)

RECURSIVE Repeat(_, _)
Repeat(c, k) == IF k = 0 THEN <<>> ELSE <<c>> \o Repeat(c, k - 1)

IdDigit(k) == CASE k = 1 -> "1" [] k = 2 -> "2" [] k = 3 -> "3" [] k = 4 -> "4"
                [] k = 5 -> "5" [] k = 6 -> "6" [] OTHER -> "0"

\* the ObjectId of the k-th stored user, as 24 lower case hex characters.
\* (The driver draws a fresh ObjectId for every document it constructs; the
\* id of a document that is never stored is never seen.)
GenId(k) == Repeat("a", ObjectIdLen - 1) \o <<IdDigit(k)>>

Range(f) == {f[i] : i \in DOMAIN f}

\* mutant: the schema without unique: true
NoUniqueIndex(username) == FALSE

\* userSchema: username is unique, enforced by the store's unique index
UniqueIndexViolated(username) == \E u \in Range(users) : u.username = username

\* mutant: findOne() without the id
findAnyUser(id) == IF users = <<>> THEN {} ELSE {users[1]}

\* UserModel.findById(id): the documents whose _id is the ObjectId the
\* string is cast to (none or one)
findById(id) == {u \in Range(users) : u._id = castObjectId(id)}

\* mutant: findOne in place of find
findFirstUser ==
  [i \in DOMAIN users \cap {1} |-> [_id |-> users[i]._id, username |-> users[i].username]]

\* UserModel.find().select('username'): every user, as {_id, username}
findUsers == [i \in DOMAIN users |-> [_id |-> users[i]._id, username |-> users[i].username]]

\* lines 540-551: the predicate handed to ExerciseModel.find
buildFindQuery(_id, from, to) ==
  IF Truthy(from) /\ Truthy(to) THEN [userId |-> _id, gte |-> from, lte |-> to]
  ELSE IF Truthy(from) THEN [userId |-> _id, gte |-> from, lte |-> Undefined]
  ELSE IF Truthy(to) THEN [userId |-> _id, gte |-> Undefined, lte |-> to]
  ELSE [userId |-> _id, gte |-> Undefined, lte |-> Undefined]

\* mutant: the predicate without userId
MatchesDateOnly(e, q) ==
  /\ q.gte.t = "number" => e.date >= q.gte.n
  /\ q.lte.t = "number" => e.date <= q.lte.n

\* the store's evaluation of the predicate q on the stored exercise e
Matches(e, q) ==
  /\ e.userId = q.userId
  /\ q.gte.t = "number" => e.date >= q.gte.n
  /\ q.lte.t = "number" => e.date <= q.lte.n

\* mutant: .sort({ date: 1 })
sortByDateAsc(q) ==
  LET hit == {i \in DOMAIN exercises : Matches(exercises[i], q)}
      n == Cardinality(hit)
  IN {p \in [1..n -> hit] :
        /\ \A i, j \in 1..n : i # j => p[i] # p[j]
        /\ \A i, j \in 1..n : i < j => exercises[p[i]].date <= exercises[p[j]].date}

\* .sort({ date: -1 }): the orders the store may return the matching
\* documents in (indexes into exercises); documents with equal dates come in
\* any order
sortByDateDesc(q) ==
  LET hit == {i \in DOMAIN exercises : Matches(exercises[i], q)}
      n == Cardinality(hit)
  IN {p \in [1..n -> hit] :
        /\ \A i, j \in 1..n : i # j => p[i] # p[j]
        /\ \A i, j \in 1..n : i < j => exercises[p[i]].date >= exercises[p[j]].date}

\* .limit(limit): the first limit documents; no cap when limit is undefined
\* (the store reads 0 as no cap and a negative number as its absolute value)
applyLimit(p, limit) ==
  LET k == IF limit.n < 0 THEN 0 - limit.n ELSE limit.n
  IN IF limit.t = "number" /\ k # 0 /\ k < Len(p) THEN SubSeq(p, 1, k) ELSE p

\* lines 565-569, after .select('description duration date -_id')
formatLog(doc) ==
  [description |-> doc.description, duration |-> doc.duration,
   date |-> toDateString(doc.date)]

---------------------------------------------------------------------------
(* Requests and responses *)

MaxReq == 2
MaxUsers == 2
MaxExercises == 2
MaxTicks == 1

\* Date.now() when the process starts: 1971-01-01T12:00Z
NowStart == 731

NoMsg == [text |-> "", arg |-> Undefined]
NoDate == [wd |-> "", mon |-> "", day |-> 0, year |-> 0]
NoExercise == [userId |-> <<>>, description |-> <<>>, duration |-> 0, date |-> 0]
NoQuery == [userId |-> <<>>, gte |-> Undefined, lte |-> Undefined]
NoBody == [description |-> <<>>, duration |-> 0, date |-> Undefined]

\* the request as it came in: req.body, req.params and req.query together
NoRaw == [username |-> Undefined, _id |-> Undefined, description |-> Undefined,
          duration |-> Undefined, date |-> Undefined, from |-> Undefined,
          to |-> Undefined, limit |-> Undefined]

\* a request being handled: pc is the store operation it awaits.  History:
\* raw is the request as received, known and knownEx the users and the number
\* of exercises acknowledged when it was received, at the time at which
\* new ExerciseModel ran
NoReq == [kind |-> "none", pc |-> "none", raw |-> NoRaw, _id |-> <<>>,
          username |-> <<>>, userDocId |-> <<>>, body |-> NoBody,
          from |-> Undefined, to |-> Undefined, limit |-> Undefined,
          exercise |-> NoExercise, findQuery |-> NoQuery, message |-> NoMsg,
          known |-> {}, knownEx |-> 0, at |-> 0]

\* the response being sent; req and hits are history (the request, and the
\* stored exercises behind the log, as indexes into exercises)
NoResp == [kind |-> "none", status |-> 0, message |-> NoMsg, username |-> <<>>,
           _id |-> <<>>, description |-> <<>>, duration |-> 0, date |-> NoDate,
           users |-> <<>>, count |-> 0, log |-> <<>>, req |-> NoReq, hits |-> <<>>]

\* res.status(status).json({ message })
Fail(r, status, message) ==
  [NoResp EXCEPT !.kind = r.kind, !.status = status, !.message = message, !.req = r]

Msg(text, arg) == [text |-> text, arg |-> arg]

Add(r) == inflight (+) SetToBag({r})

\* mutant: the request stays with its handler after it has been answered
KeepInFlight(r) == inflight
Remove(r) == inflight (-) SetToBag({r})
\* mutant: the routes are served whatever the state of the connection
CanReceiveAnytime == resp = NoResp /\ BagCardinality(inflight) < MaxReq

CanReceive ==
  server = "listening" /\ resp = NoResp /\ BagCardinality(inflight) < MaxReq
InFlight(kind, pc) == {r \in BagToSet(inflight) : r.kind = kind /\ r.pc = pc}
CountInFlight(kind) ==
  LET S == {r \in BagToSet(inflight) : r.kind = kind}
  IN BagCardinality([r \in S |-> inflight[r]])

Init ==
  /\ server = "connecting"
  /\ users = <<>>
  /\ exercises = <<>>
  /\ now = NowStart
  /\ inflight = EmptyBag
  /\ resp = NoResp
  /\ acked = {}
  /\ ackedEx = <<>>

\* connect().then(...): the routes are registered and the server listens
ConnectOk ==
  /\ server = "connecting"
  /\ server' = "listening"
  /\ UNCHANGED <<users, exercises, now, inflight, resp, acked, ackedEx>>

\* connect() rejects: .catch logs the error, the server never listens
ConnectFail ==
  /\ server = "connecting"
  /\ server' = "failed"
  /\ UNCHANGED <<users, exercises, now, inflight, resp, acked, ackedEx>>

\* time passes
Tick ==
  /\ resp = NoResp
  /\ now < NowStart + MaxTicks
  /\ now' = now + 1
  /\ UNCHANGED <<server, users, exercises, inflight, resp, acked, ackedEx>>

\* the response has been written out
ResponseEnd ==
  /\ resp # NoResp
  /\ resp' = NoResp
  /\ UNCHANGED <<server, users, exercises, now, inflight, acked, ackedEx>>

---------------------------------------------------------------------------
(* POST /api/users *)

\* parseUsername, then the handler up to await user.save()
PostUsers(raw) ==
  LET p == parseUsername([username |-> raw.username])
      r == [NoReq EXCEPT !.kind = "createUser", !.raw = raw, !.known = acked,
                         !.knownEx = Len(ackedEx)]
  IN /\ CanReceive
     /\ IF ~p.ok
          THEN /\ resp' = Fail(r, 400, p.message)
               /\ UNCHANGED inflight
          ELSE /\ Len(users) + CountInFlight("createUser") < MaxUsers
               /\ inflight' = Add([r EXCEPT !.pc = "save", !.username = p.val.s])
               /\ UNCHANGED resp
     /\ UNCHANGED <<server, users, exercises, now, acked, ackedEx>>

\* mutant: a username that is already stored is given to the new document
SaveUserUpsert(r) ==
  /\ resp = NoResp
  /\ r \in InFlight("createUser", "save")
  /\ inflight' = Remove(r)
  /\ \E storeDown \in BOOLEAN :
       IF storeDown
         THEN /\ resp' = Fail(r, 500, Msg("Error while creating the user: ", StrV(r.username)))
              /\ UNCHANGED <<users, acked, ackedEx>>
         ELSE LET _id == GenId(Len(users) + 1)
                  kept == SelectSeq(users, LAMBDA u : u.username # r.username)
              IN /\ users' = Append(kept, [_id |-> _id, username |-> r.username])
                 /\ resp' = [NoResp EXCEPT !.kind = r.kind, !.status = 200,
                                           !.username = r.username, !._id = _id, !.req = r]
                 /\ acked' = acked \cup {[username |-> r.username, _id |-> _id]}
  /\ UNCHANGED <<server, exercises, now, ackedEx>>

\* user.save() settles: the insert is refused when the store is unreachable
\* or the unique index on username is violated
SaveUser(r) ==
  /\ resp = NoResp
  /\ r \in InFlight("createUser", "save")
  /\ inflight' = Remove(r)
  /\ \E storeDown \in BOOLEAN :
       IF storeDown \/ UniqueIndexViolated(r.username)
         THEN /\ resp' = Fail(r, 500, Msg("Error while creating the user: ", StrV(r.username)))
              /\ UNCHANGED <<users, acked, ackedEx>>
         ELSE LET _id == GenId(Len(users) + 1)
              IN /\ users' = Append(users, [_id |-> _id, username |-> r.username])
                 /\ resp' = [NoResp EXCEPT !.kind = r.kind, !.status = 200,
                                           !.username = r.username, !._id = _id, !.req = r]
                 /\ acked' = acked \cup {[username |-> r.username, _id |-> _id]}
  /\ UNCHANGED <<server, exercises, now, ackedEx>>

(* GET /api/users *)

GetUsers ==
  /\ CanReceive
  /\ inflight' = Add([NoReq EXCEPT !.kind = "listUsers", !.pc = "find", !.known = acked,
                                   !.knownEx = Len(ackedEx)])
  /\ UNCHANGED <<server, users, exercises, now, resp, acked, ackedEx>>

\* UserModel.find().select('username') settles
FindUsers(r) ==
  /\ resp = NoResp
  /\ r \in InFlight("listUsers", "find")
  /\ inflight' = Remove(r)
  /\ \E storeDown \in BOOLEAN :
       resp' = IF storeDown THEN Fail(r, 500, Msg("Error while reading list of users", Undefined))
               ELSE IF Len(findUsers) = 0
                 THEN Fail(r, 404, Msg("No users found in the database", Undefined))
               ELSE [NoResp EXCEPT !.kind = r.kind, !.status = 200, !.users = findUsers,
                                   !.req = r]
  /\ UNCHANGED <<server, users, exercises, now, acked, ackedEx>>

(* POST /api/users/:_id/exercises *)

\* parseExerciseInput, then the handler up to await UserModel.findById
PostExercise(raw) ==
  LET p == parseExerciseInput([_id |-> raw._id],
             [description |-> raw.description, duration |-> raw.duration, date |-> raw.date])
      r == [NoReq EXCEPT !.kind = "createExercise", !.raw = raw, !.known = acked,
                         !.knownEx = Len(ackedEx)]
  IN /\ CanReceive
     /\ IF ~p.ok
          THEN /\ resp' = Fail(r, 400, p.message)
               /\ UNCHANGED inflight
          ELSE /\ Len(exercises) + CountInFlight("createExercise") < MaxExercises
               /\ inflight' = Add([r EXCEPT !.pc = "findById", !._id = p.val._id,
                                     !.body = [description |-> p.val.description,
                                               duration |-> p.val.duration,
                                               date |-> p.val.date]])
               /\ UNCHANGED resp
     /\ UNCHANGED <<server, users, exercises, now, acked, ackedEx>>

\* mutant: a document without date is dated at the epoch
newExerciseEpoch(userId, body) ==
  IF body.date.t = "date"
    THEN Ok([userId |-> userId, description |-> body.description,
             duration |-> body.duration, date |-> body.date.n])
  ELSE IF body.date = StrV(<<>>) \/ body.date = Undefined
    THEN Ok([userId |-> userId, description |-> body.description,
             duration |-> body.duration, date |-> 0])
  ELSE Err("Unrecognized date data content", Undefined)

\* mutant: the empty string is not taken for "no date"
newExerciseNoEmpty(userId, body) ==
  IF body.date.t = "date"
    THEN Ok([userId |-> userId, description |-> body.description,
             duration |-> body.duration, date |-> body.date.n])
  ELSE IF body.date = Undefined
    THEN Ok([userId |-> userId, description |-> body.description,
             duration |-> body.duration, date |-> now])
  ELSE Err("Unrecognized date data content", Undefined)

\* lines 337-343: the document new ExerciseModel builds; the schema default
\* Date.now fills the date when none is given
newExercise(userId, body) ==
  IF body.date.t = "date"
    THEN Ok([userId |-> userId, description |-> body.description,
             duration |-> body.duration, date |-> body.date.n])
  ELSE IF body.date = StrV(<<>>) \/ body.date = Undefined
    THEN Ok([userId |-> userId, description |-> body.description,
             duration |-> body.duration, date |-> now])
  ELSE Err("Unrecognized date data content", Undefined)

\* UserModel.findById settles; the handler runs up to await exercise.save()
LookupForExercise(r) ==
  /\ resp = NoResp
  /\ r \in InFlight("createExercise", "findById")
  /\ \E storeDown \in BOOLEAN :
       LET found == findById(r._id)
           userDoc == CHOOSE u \in found : TRUE
           e == newExercise(r._id, r.body)
       IN IF storeDown
            THEN /\ resp' = Fail(r, 500, Msg("Error while reading _id: ", StrV(r._id)))
                 /\ inflight' = Remove(r)
          ELSE IF found = {}
            THEN /\ resp' = Fail(r, 404, Msg("No user found with _id: ", StrV(r._id)))
                 /\ inflight' = Remove(r)
          ELSE IF ~e.ok
            THEN /\ resp' = Fail(r, 400, e.message)
                 /\ inflight' = Remove(r)
          ELSE /\ inflight' = Remove(r) (+) SetToBag({[r EXCEPT !.pc = "save",
                                 !.exercise = e.val, !.username = userDoc.username,
                                 !.userDocId = userDoc._id, !.at = now]})
               /\ UNCHANGED resp
  /\ UNCHANGED <<server, users, exercises, now, acked, ackedEx>>

\* mutant: the document is written although the save is answered 500
SaveExerciseOnError(r) ==
  /\ resp = NoResp
  /\ r \in InFlight("createExercise", "save")
  /\ inflight' = Remove(r)
  /\ \E storeDown \in BOOLEAN :
       /\ exercises' = Append(exercises, r.exercise)
       /\ IF storeDown
            THEN /\ resp' = Fail(r, 500, Msg("Error while creating exercise", Undefined))
                 /\ UNCHANGED ackedEx
            ELSE /\ resp' = [NoResp EXCEPT !.kind = r.kind, !.status = 200,
                               !.username = r.username,
                               !.description = r.exercise.description,
                               !.duration = r.exercise.duration,
                               !.date = toDateString(r.exercise.date),
                               !._id = r.userDocId, !.req = r]
                 /\ ackedEx' = Append(ackedEx,
                        [_id |-> r._id, noDate |-> ~Truthy(r.raw.date),
                         description |-> resp'.description, duration |-> resp'.duration,
                         date |-> resp'.date])
  /\ UNCHANGED <<server, users, now, acked>>

\* exercise.save() settles
SaveExercise(r) ==
  /\ resp = NoResp
  /\ r \in InFlight("createExercise", "save")
  /\ inflight' = Remove(r)
  /\ \E storeDown \in BOOLEAN :
       IF storeDown
         THEN /\ resp' = Fail(r, 500, Msg("Error while creating exercise", Undefined))
              /\ UNCHANGED <<exercises, ackedEx>>
         ELSE /\ exercises' = Append(exercises, r.exercise)
              /\ resp' = [NoResp EXCEPT !.kind = r.kind, !.status = 200,
                            !.username = r.username,
                            !.description = r.exercise.description,
                            !.duration = r.exercise.duration,
                            !.date = toDateString(r.exercise.date),
                            !._id = r.userDocId, !.req = r]
              /\ ackedEx' = Append(ackedEx,
                     [_id |-> r._id, noDate |-> ~Truthy(r.raw.date),
                      description |-> resp'.description, duration |-> resp'.duration,
                      date |-> resp'.date])
  /\ UNCHANGED <<server, users, now, acked>>

(* GET /api/users/:_id/logs *)

\* parseLogsInput, then the handler up to await UserModel.findById
GetLogs(raw) ==
  LET p == parseLogsInput([_id |-> raw._id],
             [from |-> raw.from, to |-> raw.to, limit |-> raw.limit])
      r == [NoReq EXCEPT !.kind = "listLogs", !.raw = raw, !.known = acked,
                         !.knownEx = Len(ackedEx)]
  IN /\ CanReceive
     /\ IF ~p.ok
          THEN /\ resp' = Fail(r, 400, p.message)
               /\ UNCHANGED inflight
          ELSE /\ inflight' = Add([r EXCEPT !.pc = "findById", !._id = p.val._id,
                                     !.from = p.val.from, !.to = p.val.to,
                                     !.limit = p.val.limit])
               /\ UNCHANGED resp
     /\ UNCHANGED <<server, users, exercises, now, acked, ackedEx>>

\* UserModel.findById settles; the handler builds the predicate and runs up
\* to await ExerciseModel.find(...)  (the 404 message also lists the
\* criteria; only its fixed part and the id are kept)
LookupForLogs(r) ==
  /\ resp = NoResp
  /\ r \in InFlight("listLogs", "findById")
  /\ \E storeDown \in BOOLEAN :
       LET found == findById(r._id)
           userDoc == CHOOSE u \in found : TRUE
       IN IF storeDown
            THEN /\ resp' = Fail(r, 500, Msg("Error while reading _id: ", StrV(r._id)))
                 /\ inflight' = Remove(r)
          ELSE IF found = {}
            THEN /\ resp' = Fail(r, 404, Msg("No user found with ID: ", StrV(r._id)))
                 /\ inflight' = Remove(r)
          ELSE /\ inflight' = Remove(r) (+) SetToBag({[r EXCEPT !.pc = "find",
                                 !.username = userDoc.username,
                                 !.findQuery = buildFindQuery(r._id, r.from, r.to),
                                 !.message = Msg("No exercises found with criteria - ID: ",
                                                 StrV(r._id))]})
               /\ UNCHANGED resp
  /\ UNCHANGED <<server, users, exercises, now, acked, ackedEx>>

\* mutant: an empty log is sent with status 200
FindLogsEmptyOk(r) ==
  /\ resp = NoResp
  /\ r \in InFlight("listLogs", "find")
  /\ inflight' = Remove(r)
  /\ \E storeDown \in BOOLEAN :
       IF storeDown
         THEN resp' = Fail(r, 500, Msg("Error while creating exercise list", Undefined))
         ELSE \E p \in sortByDateDesc(r.findQuery) :
                LET hits == applyLimit(p, r.limit)
                IN resp' = [NoResp EXCEPT !.kind = r.kind, !.status = 200,
                              !.username = r.username, !.count = Len(hits), !._id = r._id,
                              !.log = [i \in 1..Len(hits) |-> formatLog(exercises[hits[i]])],
                              !.req = r, !.hits = hits]
  /\ UNCHANGED <<server, users, exercises, now, acked, ackedEx>>

\* ExerciseModel.find(findQuery).sort({ date: -1 }).limit(limit).select(...)
\* settles; the log is formatted and sent
FindLogs(r) ==
  /\ resp = NoResp
  /\ r \in InFlight("listLogs", "find")
  /\ inflight' = Remove(r)
  /\ \E storeDown \in BOOLEAN :
       IF storeDown
         THEN resp' = Fail(r, 500, Msg("Error while creating exercise list", Undefined))
         ELSE \E p \in sortByDateDesc(r.findQuery) :
                LET hits == applyLimit(p, r.limit)
                IN resp' = IF Len(hits) = 0 THEN Fail(r, 404, r.message)
                           ELSE [NoResp EXCEPT !.kind = r.kind, !.status = 200,
                                   !.username = r.username, !.count = Len(hits),
                                   !._id = r._id,
                                   !.log = [i \in 1..Len(hits) |-> formatLog(exercises[hits[i]])],
                                   !.req = r, !.hits = hits]
  /\ UNCHANGED <<server, users, exercises, now, acked, ackedEx>>

---------------------------------------------------------------------------
(* Requests the clients send *)

\* the ObjectId GenId(k) spelled with upper case hex digits
AltId(k) == Repeat("A", ObjectIdLen - 1) \o <<IdDigit(k)>>

Y1969 == StrV(<<"1","9","6","9">>)
Y1970 == StrV(<<"1","9","7","0">>)
Y1971 == StrV(<<"1","9","7","1">>)
Run == StrV(<<"r","u","n">>)

UserRequests ==
  {[NoRaw EXCEPT !.username = u] :
     u \in {Undefined, StrV(<<"a">>), StrV(<<" ","a">>), StrV(<<"b">>)}}

ExerciseRequests ==
  {[NoRaw EXCEPT !._id = StrV(id), !.description = Run,
                 !.duration = StrV(<<"3","0">>)] :
     id \in {GenId(1), AltId(1), GenId(2)}}

Handle ==
  \/ \E r \in BagToSet(inflight) : SaveUser(r)
  \/ \E r \in BagToSet(inflight) : FindUsers(r)
  \/ \E r \in BagToSet(inflight) : LookupForExercise(r)
  \/ \E r \in BagToSet(inflight) : SaveExercise(r)

Next ==
  \/ ConnectOk
  \/ ConnectFail
  \/ ResponseEnd
  \/ \E raw \in UserRequests : PostUsers(raw)
  \/ GetUsers
  \/ \E raw \in ExerciseRequests : PostExercise(raw)
  \/ Handle

\* users and exercises are created and users listed by concurrent requests,
\* up to MaxReq in flight
Spec == Init /\ [][Next]_vars

SeqUserRequests ==
  {[NoRaw EXCEPT !.username = u] : u \in {StrV(<<"a">>), StrV(<<"b">>)}}

SeqExerciseRequests ==
  {[NoRaw EXCEPT !._id = StrV(GenId(1)), !.description = Run,
                 !.duration = StrV(<<"3","0">>), !.date = d] :
     d \in {Undefined, Y1969, Y1970, Y1971}}
  \cup {[NoRaw EXCEPT !._id = StrV(GenId(2)), !.description = Run,
                      !.duration = StrV(<<"4","5">>), !.date = Y1970],
         [NoRaw EXCEPT !._id = StrV(AltId(1)), !.description = StrV(<<"s","w","i","m">>),
                       !.duration = StrV(<<"4","5">>)]}

DateInputs == {Undefined, Y1969, Y1970, Y1971}
LimitInputs ==
  {StrV(<<"1">>), StrV(<<"2">>), StrV(<<"5","0">>), StrV(<<"5","1">>), StrV(<<"0">>),
   StrV(<<"-","1">>), StrV(<<"a">>), StrV(<<>>), StrV(<<"2","x">>)}

SeqLogsRequests ==
  {[NoRaw EXCEPT !._id = StrV(GenId(1)), !.from = f, !.to = t, !.limit = l] :
     f \in DateInputs, t \in DateInputs, l \in {Undefined, StrV(<<"1">>)}}
  \cup {[NoRaw EXCEPT !._id = StrV(GenId(1)), !.limit = l] : l \in LimitInputs}
  \cup {[NoRaw EXCEPT !._id = StrV(GenId(2))]}

SeqHandle ==
  \/ Handle
  \/ \E r \in BagToSet(inflight) : LookupForLogs(r)
  \/ \E r \in BagToSet(inflight) : FindLogs(r)

SeqNext ==
  \/ ConnectOk
  \/ ConnectFail
  \/ Tick
  \/ ResponseEnd
  \/ inflight = EmptyBag /\ \E raw \in SeqUserRequests : PostUsers(raw)
  \/ inflight = EmptyBag /\ GetUsers
  \/ inflight = EmptyBag /\ \E raw \in SeqExerciseRequests : PostExercise(raw)
  \/ inflight = EmptyBag /\ \E raw \in SeqLogsRequests : GetLogs(raw)
  \/ SeqHandle

\* one request at a time, with the log queries and the clock
SpecSeq == Init /\ [][SeqNext]_vars

DigitChar(d) ==
  CASE d = 0 -> "0" [] d = 1 -> "1" [] d = 2 -> "2" [] d = 3 -> "3" [] d = 4 -> "4"
    [] d = 5 -> "5" [] d = 6 -> "6" [] d = 7 -> "7" [] d = 8 -> "8" [] d = 9 -> "9"

\* the decimal numeral of the integer n
RECURSIVE NatToStr(_)
NatToStr(n) ==
  IF n < 10 THEN <<DigitChar(n)>> ELSE NatToStr(n \div 10) \o <<DigitChar(n % 10)>>
IntToStr(n) == IF n < 0 THEN <<"-">> \o NatToStr(0 - n) ELSE NatToStr(n)

\* limits are tried from -LimitSpan to LimitSpan above the maximum
LimitSpan == 3
LimitRange == (0 - LimitSpan)..(MAX_LIMIT + LimitSpan)

\* limits that parseInt turns into NaN
NotIntegers == {StrV(<<>>), StrV(<<" ">>), StrV(<<"a">>), StrV(<<"-">>), StrV(<<"a","1">>)}

LimitRequests ==
  {[NoRaw EXCEPT !._id = StrV(GenId(1)), !.limit = l] :
     l \in {StrV(IntToStr(n)) : n \in LimitRange} \cup NotIntegers \cup {Undefined}}

LimitNext ==
  \/ ConnectOk
  \/ ConnectFail
  \/ ResponseEnd
  \/ inflight = EmptyBag /\ PostUsers([NoRaw EXCEPT !.username = StrV(<<"a">>)])
  \/ \E r \in BagToSet(inflight) : SaveUser(r)
  \/ inflight = EmptyBag
       /\ PostExercise([NoRaw EXCEPT !._id = StrV(GenId(1)), !.description = Run,
                                     !.duration = StrV(<<"3","0">>), !.date = Y1970])
  \/ \E r \in BagToSet(inflight) : LookupForExercise(r)
  \/ \E r \in BagToSet(inflight) : SaveExercise(r)
  \/ inflight = EmptyBag /\ \E raw \in LimitRequests : GetLogs(raw)
  \/ \E r \in BagToSet(inflight) : LookupForLogs(r)
  \/ \E r \in BagToSet(inflight) : FindLogs(r)

\* one request at a time: list-logs with every limit of LimitRequests
SpecLimit == Init /\ [][LimitNext]_vars

\* list-logs queries: from and to absent, empty or a year, with limits that
\* are absent, accepted and refused, for a user that may not exist
QueryDateInputs == DateInputs \cup {StrV(<<>>)}
QueryLimitInputs == {Undefined, StrV(<<"1">>), StrV(<<"5","1">>), StrV(<<"a">>)}

QueryRequests ==
  {[NoRaw EXCEPT !._id = StrV(id), !.from = f, !.to = t, !.limit = l] :
     id \in {GenId(1), GenId(2)}, f \in QueryDateInputs, t \in QueryDateInputs,
     l \in QueryLimitInputs}

QueryExerciseRequests ==
  {[NoRaw EXCEPT !._id = StrV(GenId(1)), !.description = Run,
                 !.duration = StrV(<<"3","0">>), !.date = d] : d \in DateInputs}

QueryNext ==
  \/ ConnectOk
  \/ ConnectFail
  \/ ResponseEnd
  \/ inflight = EmptyBag /\ \E raw \in SeqUserRequests : PostUsers(raw)
  \/ \E r \in BagToSet(inflight) : SaveUser(r)
  \/ inflight = EmptyBag /\ \E raw \in QueryExerciseRequests : PostExercise(raw)
  \/ \E r \in BagToSet(inflight) : LookupForExercise(r)
  \/ \E r \in BagToSet(inflight) : SaveExercise(r)
  \/ inflight = EmptyBag /\ \E raw \in QueryRequests : GetLogs(raw)
  \/ \E r \in BagToSet(inflight) : LookupForLogs(r)
  \/ \E r \in BagToSet(inflight) : FindLogs(r)

\* one request at a time: list-logs with every query of QueryRequests
SpecQuery == Init /\ [][QueryNext]_vars

\* create-user bodies: no username, a number, an array, blank strings, and
\* names with and without surrounding white space
InputUserRequests ==
  {[NoRaw EXCEPT !.username = u] :
     u \in {Undefined, NumV(5), ArrV(<<"a">>), StrV(<<>>), StrV(<<" ">>),
            StrV(<<"a">>), StrV(<<" ","a"," ">>), StrV(<<"a"," ","b">>)}}

Swim == StrV(<<" ","s","w","i","m"," ">>)
Thirty == StrV(<<"3","0">>)

DurationInputs ==
  {Undefined, NumV(30), StrV(<<>>), StrV(<<" ">>), StrV(<<"a","b","c">>),
   Thirty, StrV(<<" ","7"," ">>), StrV(<<"0">>), StrV(<<"-","5">>), StrV(<<"3","x">>)}

ExerciseDateInputs ==
  {Undefined, StrV(<<>>), Y1970, StrV(<<"x">>), StrV(<<" ">>),
   StrV(<<"1","9","7","0","x">>)}

\* create-exercise requests: one field of a valid request varied at a time,
\* the date also for a second id, and requests with two unparseable fields
InputExerciseRequests ==
  {[NoRaw EXCEPT !._id = StrV(GenId(1)), !.description = Run, !.duration = d] :
     d \in DurationInputs}
  \cup {[NoRaw EXCEPT !._id = StrV(id), !.description = Run, !.duration = Thirty,
                      !.date = d] : id \in {GenId(1), GenId(2)}, d \in ExerciseDateInputs}
  \cup {[NoRaw EXCEPT !._id = StrV(GenId(1)), !.description = d, !.duration = Thirty] :
          d \in {Swim, StrV(<<>>), Undefined, NumV(1)}}
  \cup {[NoRaw EXCEPT !._id = StrV(GenId(1)), !.description = Run,
                      !.duration = StrV(<<"a","b","c">>), !.date = StrV(<<"x">>)],
         [NoRaw EXCEPT !._id = StrV(GenId(2)), !.description = Run,
                       !.duration = StrV(<<"a","b","c">>)],
         [NoRaw EXCEPT !._id = StrV(<<"x","y","z">>), !.description = Run,
                       !.duration = Thirty, !.date = StrV(<<"x">>)]}

InputNext ==
  \/ ConnectOk
  \/ ConnectFail
  \/ ResponseEnd
  \/ inflight = EmptyBag /\ \E raw \in InputUserRequests : PostUsers(raw)
  \/ \E r \in BagToSet(inflight) : SaveUser(r)
  \/ inflight = EmptyBag /\ \E raw \in InputExerciseRequests : PostExercise(raw)
  \/ \E r \in BagToSet(inflight) : LookupForExercise(r)
  \/ \E r \in BagToSet(inflight) : SaveExercise(r)

\* one request at a time: create-user and create-exercise with every body of
\* InputUserRequests and InputExerciseRequests
SpecInput == Init /\ [][InputNext]_vars

\* list-logs requests for a stored, an unknown and a malformed id, with
\* limits and ranges that pass and that fail each check of parseLogsInput
AllLogsRequests ==
  {[NoRaw EXCEPT !._id = StrV(id), !.from = ft[1], !.to = ft[2], !.limit = l] :
     id \in {GenId(1), GenId(2), <<"x","y","z">>},
     ft \in {<<Undefined, Undefined>>, <<Y1971, Y1970>>, <<StrV(<<"x">>), Undefined>>},
     l \in QueryLimitInputs}

AllHandle ==
  \/ \E r \in BagToSet(inflight) : SaveUser(r)
  \/ \E r \in BagToSet(inflight) : FindUsers(r)
  \/ \E r \in BagToSet(inflight) : LookupForExercise(r)
  \/ \E r \in BagToSet(inflight) : SaveExercise(r)
  \/ \E r \in BagToSet(inflight) : LookupForLogs(r)
  \/ \E r \in BagToSet(inflight) : FindLogs(r)

AllNext ==
  \/ ConnectOk
  \/ ConnectFail
  \/ ResponseEnd
  \/ inflight = EmptyBag /\ \E raw \in InputUserRequests : PostUsers(raw)
  \/ inflight = EmptyBag /\ GetUsers
  \/ inflight = EmptyBag /\ \E raw \in InputExerciseRequests : PostExercise(raw)
  \/ inflight = EmptyBag /\ \E raw \in AllLogsRequests : GetLogs(raw)
  \/ AllHandle

\* one request at a time, every route, with valid and invalid requests
SpecAll == Init /\ [][AllNext]_vars

\* every store operation settles (fulfilled or rejected), and a response
\* that is being sent goes out
SpecAllFair == SpecAll /\ WF_vars(AllHandle) /\ WF_vars(ResponseEnd)

\* create-exercise for the first user with no date, an empty date and a year
DateRequests ==
  {[NoRaw EXCEPT !._id = StrV(GenId(1)), !.description = Run, !.duration = Thirty,
                 !.date = d] : d \in DateInputs \cup {StrV(<<>>)}}

DateNext ==
  \/ ConnectOk
  \/ ConnectFail
  \/ Tick
  \/ ResponseEnd
  \/ inflight = EmptyBag /\ PostUsers([NoRaw EXCEPT !.username = StrV(<<"a">>)])
  \/ \E r \in BagToSet(inflight) : SaveUser(r)
  \/ inflight = EmptyBag /\ \E raw \in DateRequests : PostExercise(raw)
  \/ \E r \in BagToSet(inflight) : LookupForExercise(r)
  \/ \E r \in BagToSet(inflight) : SaveExercise(r)

\* one request at a time while the clock advances: exercises with and
\* without a date
SpecDate == Init /\ [][DateNext]_vars

---------------------------------------------------------------------------
(* Properties *)

Entries(list, username) == {i \in DOMAIN list : list[i].username = username}

\* C1: a list-users request received after a create-user request was
\* answered 200 with {username, _id} is answered 200 (or 500 when the store
\* read fails), and its 200 response lists exactly one entry with that
\* username, whose _id is the one create-user returned.
C1_CreatedUserListedOnce ==
  resp.kind = "listUsers" /\ resp.req.known # {} =>
    /\ resp.status \in {200, 500}
    /\ resp.status = 200 =>
         \A a \in resp.req.known :
           /\ Cardinality(Entries(resp.users, a.username)) = 1
           /\ \A i \in Entries(resp.users, a.username) : resp.users[i]._id = a._id

\* a 200 list of two users, both acknowledged before the request came in
C1_Witness ==
  /\ resp.kind = "listUsers" /\ resp.status = 200
  /\ Cardinality(resp.req.known) = 2
  /\ Len(resp.users) = 2

NoDuplicateUsername ==
  \A i, j \in DOMAIN users : users[i].username = users[j].username => i = j

\* C2: no two stored users ever have the same username, no username is
\* acknowledged with 200 twice, and a create-user request whose trimmed
\* username is already stored when its insert runs is answered 500 and
\* stores nothing; the handler holds no lock, requests interleave freely.
C2_UsernameUnique ==
  /\ [](NoDuplicateUsername
        /\ \A a, b \in acked : a.username = b.username => a = b)
  /\ [][resp = NoResp /\ resp'.kind = "createUser" /\ resp'.status # 400 =>
          IF \E u \in Range(users) : u.username = Trim(resp'.req.raw.username.s)
            THEN resp'.status = 500 /\ users' = users /\ acked' = acked
            ELSE resp'.status \in {200, 500}]_vars

\* a create-user request answered 500 because a concurrent request with a
\* username equal after trimming was stored after this one was received
C2_Witness ==
  /\ resp.kind = "createUser" /\ resp.status = 500
  /\ \E u \in Range(users) :
       /\ u.username = resp.req.username
       /\ StrV(u.username) # resp.req.raw.username
       /\ \A a \in resp.req.known : a.username # u.username

\* C3: the userId of every stored exercise denotes the _id of a stored
\* user, every exercise about to be saved belongs to the user its lookup
\* returned, and the exercises change only by the save of such a request.
C3_ExerciseOwnerExists ==
  /\ [](/\ \A i \in DOMAIN exercises :
             \E u \in Range(users) : u._id = castObjectId(exercises[i].userId)
        /\ \A r \in InFlight("createExercise", "save") :
             /\ r.exercise.userId = r._id
             /\ \E u \in Range(users) :
                  u._id = r.userDocId /\ u._id = castObjectId(r._id))
  /\ [][exercises' # exercises =>
          \E r \in InFlight("createExercise", "save") :
            exercises' = Append(exercises, r.exercise)]_vars

\* exercises of two users are stored, one under an upper case spelling of
\* the id
C3_Witness ==
  /\ \E i, j \in DOMAIN exercises :
       /\ exercises[i].userId = AltId(1)
       /\ exercises[j].userId = GenId(2)


NoFilters(r) ==
  r.raw.from = Undefined /\ r.raw.to = Undefined /\ r.raw.limit = Undefined

Entry(a) == [description |-> a.description, duration |-> a.duration, date |-> a.date]

\* C4: a create-exercise request without a date is answered 200 with the
\* trimmed description, the parsed duration and the rendering of the time
\* the record was created at; and a list-logs request without filters for
\* the same user, received after that response, is answered 200 (or 500
\* when a store operation fails) with a log that holds an entry with that
\* description, duration and date.
C4_RoundTrip ==
  /\ resp.kind = "createExercise" /\ resp.status = 200 /\ ~Truthy(resp.req.raw.date) =>
       /\ resp.description = Trim(resp.req.raw.description.s)
       /\ NumV(resp.duration) = ParseInt(resp.req.raw.duration)
       /\ resp.date = toDateString(resp.req.at)
  /\ resp.kind = "listLogs" /\ NoFilters(resp.req) /\ resp.status # 500 =>
       \A i \in 1..resp.req.knownEx :
         ackedEx[i].noDate /\ castObjectId(ackedEx[i]._id) = castObjectId(resp.req._id) =>
           /\ resp.status = 200
           /\ \E j \in DOMAIN resp.log : resp.log[j] = Entry(ackedEx[i])

\* the round trip of C4 when both requests spell the id the same way
RoundTripSameSpelling ==
  resp.kind = "listLogs" /\ NoFilters(resp.req) /\ resp.status # 500 =>
    \A i \in 1..resp.req.knownEx :
      ackedEx[i].noDate /\ ackedEx[i]._id = resp.req._id =>
        /\ resp.status = 200
        /\ \E j \in DOMAIN resp.log : resp.log[j] = Entry(ackedEx[i])

Owned(id) == {i \in DOMAIN exercises : exercises[i].userId = id}

C6_FromOnly ==
  resp.kind = "listLogs" /\ resp.status = 200 /\ resp.req.raw.to = Undefined
    /\ DateParse(resp.req.raw.from).t = "number" =>
      LET from == DateParse(resp.req.raw.from).n
      IN /\ \A j \in DOMAIN resp.hits : exercises[resp.hits[j]].date >= from
         /\ \A i \in Owned(resp.req._id) :
              exercises[i].date >= from => Matches(exercises[i], resp.req.findQuery)

\* C7: to parses to a timestamp and from is absent: every returned entry has
\* a stored date <= to, and every exercise of the user with date <= to is
\* matched by the predicate.
C7_ToOnly ==
  resp.kind = "listLogs" /\ resp.status = 200 /\ resp.req.raw.from = Undefined
    /\ DateParse(resp.req.raw.to).t = "number" =>
      LET to == DateParse(resp.req.raw.to).n
      IN /\ \A j \in DOMAIN resp.hits : exercises[resp.hits[j]].date <= to
         /\ \A i \in Owned(resp.req._id) :
              exercises[i].date <= to => Matches(exercises[i], resp.req.findQuery)

\* C8: from and to both parse and from <= to: the predicate matches exactly
\* the exercises of the user with from <= date <= to.
C8_FromAndTo ==
  \A r \in InFlight("listLogs", "find") :
    DateParse(r.raw.from).t = "number" /\ DateParse(r.raw.to).t = "number"
      /\ DateParse(r.raw.from).n <= DateParse(r.raw.to).n =>
        \A i \in DOMAIN exercises :
          Matches(exercises[i], r.findQuery) <=>
            /\ exercises[i].userId = r._id
            /\ DateParse(r.raw.from).n <= exercises[i].date
            /\ exercises[i].date <= DateParse(r.raw.to).n

\* C9: the log of a 200 list-logs response is the stored exercises behind
\* it in non-increasing order of stored date; with a limit it has at most
\* limit entries, and an exercise that matches the predicate and is left out
\* is left out because the limit is reached, and is dated no later than any
\* returned one.
C9_NewestFirstCapped ==
  resp.kind = "listLogs" /\ resp.status = 200 =>
    LET hits == resp.hits
        q == resp.req.findQuery
        limit == resp.req.limit
    IN /\ \A i, j \in DOMAIN hits :
            i < j => hits[i] # hits[j] /\ exercises[hits[i]].date >= exercises[hits[j]].date
       /\ \A j \in DOMAIN hits : Matches(exercises[hits[j]], q)
       /\ resp.count = Len(hits) /\ Len(resp.log) = Len(hits)
       /\ \A j \in DOMAIN hits : resp.log[j] = formatLog(exercises[hits[j]])
       /\ limit.t = "number" => Len(hits) <= limit.n
       /\ \A i \in DOMAIN exercises :
            Matches(exercises[i], q) /\ i \notin Range(hits) =>
              /\ limit.t = "number" /\ Len(hits) = limit.n
              /\ \A j \in DOMAIN hits : exercises[i].date <= exercises[hits[j]].date

\* limit=1 with two matching exercises of different dates: the later one
\* is returned
C9_Witness ==
  /\ resp.kind = "listLogs" /\ resp.status = 200
  /\ resp.req.limit = NumV(1)
  /\ \E i \in DOMAIN exercises :
       /\ Matches(exercises[i], resp.req.findQuery)
       /\ i \notin Range(resp.hits)
       /\ exercises[i].date < exercises[resp.hits[1]].date


\* C10: of a list-logs request with the integer n as its limit: n in 1..50 is
\* used as given, n <= 0 is replaced by 20, n >= 51 is answered 400 "limit
\* cannot exceed 50"; a limit that is not an integer is answered 400; without
\* a limit there is none.  The limit of a request that goes on to the store
\* is absent or an integer in 1..50, and the log is no longer than it.
C10_LimitNormalized ==
  /\ \A r \in BagToSet(inflight) \cup {resp.req} :
       r.kind = "listLogs" /\ r.pc # "none" =>
         /\ r.limit = Undefined \/ (r.limit.t = "number" /\ r.limit.n \in 1..50)
         /\ r.raw.limit = Undefined <=> r.limit = Undefined
         /\ r.raw.limit \notin NotIntegers
         /\ \A n \in LimitRange :
              r.raw.limit = StrV(IntToStr(n)) =>
                /\ n <= 50
                /\ n \in 1..50 => r.limit = NumV(n)
                /\ n <= 0 => r.limit = NumV(20)
  /\ resp.kind = "listLogs" /\ resp.req.pc = "none" =>
       /\ resp.status = 400
       /\ \/ /\ resp.req.raw.limit \in NotIntegers
             /\ resp.message = Msg("Invalid limit: ", resp.req.raw.limit)
          \/ /\ \E n \in LimitRange : n >= 51 /\ resp.req.raw.limit = StrV(IntToStr(n))
             /\ resp.message = Msg("limit cannot exceed ", NumV(50))
  /\ resp.kind = "listLogs" /\ resp.status = 200 /\ resp.req.limit # Undefined =>
       Len(resp.log) <= resp.req.limit.n

\* limit=0 reaches the store as 20 and the log is returned
C10_Witness ==
  /\ resp.kind = "listLogs" /\ resp.status = 200
  /\ resp.req.raw.limit = StrV(<<"0">>)
  /\ resp.req.limit = NumV(20)


\* the pairs <<from, to>> of the queries sent in which from is later than to
LaterThan == {<<Y1970, Y1969>>, <<Y1971, Y1969>>, <<Y1971, Y1970>>}

\* C11: a list-logs request whose from is later than its to is answered 400
\* by the input check, whatever its limit and whether or not the user
\* exists; it never goes on to a store operation.
C11_FromAfterTo ==
  /\ \A r \in BagToSet(inflight) :
       r.kind = "listLogs" => <<r.raw.from, r.raw.to>> \notin LaterThan
  /\ resp.kind = "listLogs" /\ <<resp.req.raw.from, resp.req.raw.to>> \in LaterThan =>
       resp.status = 400 /\ resp.req.pc = "none"

\* from=1971&to=1970 with an accepted limit, for a stored user, is answered
\* 400 with the message of the range check
C11_Witness ==
  /\ resp.kind = "listLogs" /\ resp.status = 400
  /\ resp.req.raw.from = Y1971 /\ resp.req.raw.to = Y1970
  /\ resp.req.raw.limit = StrV(<<"1">>)
  /\ resp.message = Msg("'from' cannot be later than 'to'", Undefined)
  /\ \E u \in Range(users) : StrV(u._id) = resp.req.raw._id

\* the answers {status, log} list-logs gives to the request raw in the
\* current state of the store, when the store's reads succeed
LogsAnswers(raw) ==
  LET p == parseLogsInput([_id |-> raw._id],
             [from |-> raw.from, to |-> raw.to, limit |-> raw.limit])
  IN IF ~p.ok THEN {[status |-> 400, log |-> <<>>]}
     ELSE IF findById(p.val._id) = {} THEN {[status |-> 404, log |-> <<>>]}
     ELSE {LET hits == applyLimit(o, p.val.limit)
           IN IF Len(hits) = 0 THEN [status |-> 404, log |-> <<>>]
              ELSE [status |-> 200,
                    log |-> [i \in 1..Len(hits) |-> formatLog(exercises[hits[i]])]] :
             o \in sortByDateDesc(buildFindQuery(p.val._id, p.val.from, p.val.to))}

\* the request with its empty from and to left out
WithoutEmpty(raw) ==
  [raw EXCEPT !.from = IF @ = StrV(<<>>) THEN Undefined ELSE @,
              !.to = IF @ = StrV(<<>>) THEN Undefined ELSE @]

\* C12: a list-logs request whose from or to is the empty string is answered
\* as the same request without that parameter is.
C12_EmptyAsAbsent ==
  resp.kind = "listLogs" /\ resp.status # 500
    /\ (resp.req.raw.from = StrV(<<>>) \/ resp.req.raw.to = StrV(<<>>))
  => [status |-> resp.status, log |-> resp.log] \in LogsAnswers(WithoutEmpty(resp.req.raw))

\* C13: when the user exists and the store's reads succeed, a list-logs
\* request whose predicate matches no stored exercise is answered 404; every
\* 200 list-logs response has count >= 1, equal to the length of its log.
C13_EmptyLogIs404 ==
  /\ resp.kind = "listLogs" /\ resp.status = 200 =>
       resp.count >= 1 /\ resp.count = Len(resp.log)
  /\ resp.kind = "listLogs" /\ resp.req.pc = "find" /\ resp.status # 500 =>
       LET q == resp.req.findQuery
           hit == {i \in DOMAIN exercises :
                     /\ exercises[i].userId = q.userId
                     /\ q.gte.t = "number" => exercises[i].date >= q.gte.n
                     /\ q.lte.t = "number" => exercises[i].date <= q.lte.n}
       IN hit = {} <=> resp.status = 404

\* the user exists and has an exercise, but none within the range asked for
C13_Witness ==
  /\ resp.kind = "listLogs" /\ resp.status = 404 /\ resp.req.pc = "find"
  /\ resp.req.raw.from = Y1971
  /\ \E i \in DOMAIN exercises : exercises[i].userId = resp.req._id


\* C14: a list-users request whose store read succeeds is answered 200 with
\* the list of the stored users, the empty list when there is none.
C14_ListUsersAlways200 ==
  resp.kind = "listUsers" /\ resp.status # 500 =>
    resp.status = 200 /\ resp.users = findUsers

\* C16: a create-user request with a valid username is answered when its
\* insert settles: 500 with the message "Error while creating the user: "
\* followed by the (trimmed) username when the insert fails, the users left
\* as they were; 200 with the username and the id of the user just stored
\* when it succeeds.  An insert of a username already stored fails.
C16_InsertFailure500 ==
  /\ [](resp.kind = "createUser" /\ resp.req.pc = "save" =>
          \/ /\ resp.status = 500
             /\ resp.message = Msg("Error while creating the user: ",
                                   StrV(Trim(resp.req.raw.username.s)))
          \/ /\ resp.status = 200
             /\ resp.username = Trim(resp.req.raw.username.s)
             /\ users # <<>>
             /\ users[Len(users)] = [_id |-> resp._id, username |-> resp.username]
             /\ \A i \in 1..(Len(users) - 1) : users[i]._id # resp._id)
  /\ [][resp' # resp /\ resp'.kind = "createUser" =>
          /\ resp'.status # 200 => users' = users
          /\ resp'.status = 200 =>
               users' = Append(users, [_id |-> resp'._id, username |-> resp'.username])
          /\ (\E u \in Range(users) : u.username = Trim(resp'.req.raw.username.s))
               => resp'.status # 200]_vars

\* the insert of a username that is already stored is answered 500
C16_Witness ==
  /\ resp.kind = "createUser" /\ resp.status = 500
  /\ \E u \in Range(users) : u.username = resp.req.username

\* C17: a create-exercise or list-logs request with a well-formed id that is
\* the id of no stored user is answered 404 when the user lookup succeeds,
\* whatever its other fields; it never goes on to save or to find
\* exercises, and the exercises are left as they were.
C17_UnknownUser404 ==
  /\ [](\A r \in BagToSet(inflight) \cup {resp.req} :
          /\ r.kind \in {"createExercise", "listLogs"}
          /\ r.pc \in {"save", "find"}
          => \E u \in Range(users) : u._id = castObjectId(r._id))
  /\ [](/\ resp.kind \in {"createExercise", "listLogs"}
        /\ resp.req.pc = "findById" /\ resp.status # 500
        /\ ~\E u \in Range(users) : u._id = castObjectId(resp.req._id)
        => resp.status = 404)
  /\ [][resp' # resp /\ resp'.status = 404 => exercises' = exercises]_vars

\* create-exercise for an id no user has, while another user is stored
C17_Witness ==
  /\ resp.kind = "createExercise" /\ resp.status = 404
  /\ users # <<>>
  /\ resp.req.raw._id = StrV(GenId(2))


\* a value that is no string, or a string of nothing but spaces
Blank(v) == v.t # "string" \/ \A i \in 1..Len(v.s) : v.s[i] = " "

\* t is s without the spaces at its ends
IsTrimOf(t, s) ==
  /\ t # <<>> /\ t[1] # " " /\ t[Len(t)] # " "
  /\ \E i, j \in 0..Len(s) : s = Repeat(" ", i) \o t \o Repeat(" ", j)

\* C15: a create-user request whose username is missing, no string or blank
\* is answered 400 by the input check and inserts nothing; every other
\* request goes on to the insert with the trimmed username, which is the
\* value stored and returned.
C15_UsernameValidated ==
  /\ [](\A r \in BagToSet(inflight) \cup {resp.req} :
          r.kind = "createUser" /\ r.pc = "save" =>
            ~Blank(r.raw.username) /\ IsTrimOf(r.username, r.raw.username.s))
  /\ [](resp.kind = "createUser" =>
          /\ Blank(resp.req.raw.username) <=> resp.status = 400
          /\ resp.status = 400 => resp.req.pc = "none"
          /\ resp.status = 200 =>
               /\ IsTrimOf(resp.username, resp.req.raw.username.s)
               /\ users[Len(users)].username = resp.username)
  /\ [](\A u \in Range(users) : IsTrimOf(u.username, u.username))
  /\ [][resp' # resp /\ resp'.kind = "createUser" /\ resp'.status = 400
          => users' = users]_vars

\* the username " a " is stored and returned as "a"
C15_Witness ==
  /\ resp.kind = "createUser" /\ resp.status = 200
  /\ resp.req.raw.username = StrV(<<" ","a"," ">>)
  /\ resp.username = <<"a">>
  /\ \E u \in Range(users) : u.username = <<"a">>

\* the durations sent that cannot be parsed as an integer
BadDurations ==
  {Undefined, NumV(30), StrV(<<>>), StrV(<<" ">>), StrV(<<"a","b","c">>)}

\* C18: a create-exercise request with a well-formed id, a valid description
\* and a duration that cannot be parsed as an integer is answered 400 by
\* the input check with the message "duration is not a valid number".
C18_DurationMessage ==
  /\ resp.kind = "createExercise"
  /\ resp.req.raw._id \in {StrV(GenId(1)), StrV(GenId(2))}
  /\ ~Blank(resp.req.raw.description)
  /\ resp.req.raw.duration \in BadDurations
  => /\ resp.status = 400 /\ resp.req.pc = "none"
     /\ resp.message.text = "duration is not a valid number"

\* the dates sent that are non-empty strings the date parser rejects
BadDates == {StrV(<<"x">>), StrV(<<" ">>), StrV(<<"1","9","7","0","x">>)}

\* C19: a create-exercise request whose date is a non-empty string that the
\* date parser cannot parse is answered 400 by the input check, whether or
\* not the user exists; it never reaches the store and no exercise is saved.
C19_BadDate400 ==
  /\ [](\A r \in BagToSet(inflight) :
          r.kind = "createExercise" => r.raw.date \notin BadDates)
  /\ [](resp.kind = "createExercise" /\ resp.req.raw.date \in BadDates =>
          resp.status = 400 /\ resp.req.pc = "none")
  /\ [][resp' # resp /\ resp'.kind = "createExercise" /\ resp'.status = 400
          => exercises' = exercises]_vars

\* date "x" for a stored user, every other field valid
C19_Witness ==
  /\ resp.kind = "createExercise" /\ resp.status = 400
  /\ resp.req.raw.date = StrV(<<"x">>)
  /\ resp.req.raw.duration = Thirty
  /\ resp.message.text = "Invalid Date Format"
  /\ \E u \in Range(users) : StrV(u._id) = resp.req.raw._id

\* C20: every stored exercise has a non-empty trimmed description and a
\* duration that is a positive integer.
C20_StoredExerciseValid ==
  \A e \in Range(exercises) :
    IsTrimOf(e.description, e.description) /\ e.duration >= 1


\* the requests sent that the input checks must refuse
Invalid(raw, kind) ==
  \/ kind = "createUser" /\ Blank(raw.username)
  \/ /\ kind = "createExercise"
     /\ \/ raw._id = StrV(<<"x","y","z">>)
        \/ Blank(raw.description)
        \/ raw.duration \in BadDurations
        \/ raw.date \in BadDates
  \/ /\ kind = "listLogs"
     /\ \/ raw._id = StrV(<<"x","y","z">>)
        \/ raw.limit \in {StrV(<<"a">>), StrV(<<"5","1">>)}
        \/ raw.from = StrV(<<"x">>)
        \/ <<raw.from, raw.to>> \in LaterThan

\* C21: a 400 response is sent by the input check, before the request has
\* started any store operation; a request that has started one is never
\* answered 400 (so "Unrecognized date data content" is never sent), and an
\* invalid request never starts one, so it is answered 400 even when its
\* user is unknown.
C21_Only400BeforeStore ==
  /\ resp.status = 400 => resp.req.pc = "none"
  /\ resp # NoResp /\ resp.req.pc = "none" => resp.status = 400
  /\ resp # NoResp /\ Invalid(resp.req.raw, resp.kind) => resp.status = 400
  /\ \A r \in BagToSet(inflight) : ~Invalid(r.raw, r.kind)
  /\ resp.message.text # "Unrecognized date data content"

\* an invalid create-exercise request for an id no user has
C21_Witness ==
  /\ resp.kind = "createExercise" /\ resp.status = 400
  /\ resp.req.raw._id = StrV(GenId(2))
  /\ resp.req.raw.duration = StrV(<<"a","b","c">>)
  /\ ~\E u \in Range(users) : u._id = GenId(2)

\* the requests in flight and the response being sent, counted together
Pending == BagCardinality(inflight) + (IF resp = NoResp THEN 0 ELSE 1)

\* C22: a request is received, validated, and then either answered or
\* handed to its first store operation; every store operation that settles
\* answers its request or hands it to the next one (lookup before save or
\* find); a request that is answered is no longer handled, so it is answered
\* once; the status is 200, 400, 404 or 500; and when store operations
\* settle, a request that is being handled is eventually answered.
C22_OneResponsePerRequest ==
  /\ [](resp # NoResp => resp.status \in {200, 400, 404, 500})
  /\ [](\A r \in BagToSet(inflight) : r.pc \in {"findById", "save", "find"})
  /\ [][/\ Pending' \in {Pending - 1, Pending, Pending + 1}
        /\ Pending' = Pending + 1 =>
             inflight = EmptyBag /\ resp = NoResp /\ Pending' = 1
        /\ Pending' = Pending - 1 => resp # NoResp /\ resp' = NoResp /\ inflight' = inflight
        /\ resp' # resp /\ resp' # NoResp => resp = NoResp /\ inflight' = EmptyBag
        /\ \A r \in BagToSet(inflight), q \in BagToSet(inflight') :
             r # q => r.pc = "findById" /\ q.pc \in {"save", "find"}
                        /\ q.raw = r.raw /\ q.kind = r.kind]_vars
  /\ (inflight # EmptyBag) ~> (resp # NoResp /\ inflight = EmptyBag)

\* a create-exercise request answered 200 after its lookup and its save
C22_Witness ==
  /\ resp.kind = "createExercise" /\ resp.status = 200 /\ resp.req.pc = "save"
  /\ inflight = EmptyBag


\* a list-logs or list-users request is being handled or answered
Reading(i, a) ==
  \/ a.kind \in {"listLogs", "listUsers"}
  \/ \E r \in BagToSet(i) : r.kind \in {"listLogs", "listUsers"}

\* C23: against an unchanged store a list-logs request has one possible
\* answer (status, entries and their order), so two identical requests are
\* answered identically; list-logs and list-users leave the store as it is.
C23_ReadIdempotent ==
  /\ [](\A raw \in AllLogsRequests : Cardinality(LogsAnswers(raw)) <= 1)
  /\ [][Reading(inflight, resp) \/ Reading(inflight', resp')
          => users' = users /\ exercises' = exercises]_vars

IsPrefix(a, b) == Len(a) <= Len(b) /\ a = SubSeq(b, 1, Len(a))

\* C24: the stored users and exercises only grow: every step keeps every
\* stored record, unchanged and in its place, and at most adds records.
C24_StoreOnlyGrows ==
  [][IsPrefix(users, users') /\ IsPrefix(exercises, exercises')]_vars

\* a second user and an exercise have been stored after the first user
C24_Witness ==
  /\ Len(users) = 2 /\ Len(exercises) >= 1
  /\ resp.status = 200 /\ resp.kind = "createExercise"

\* C30: the store changes only in the step in which a create-user or
\* create-exercise request is answered 200, and then by exactly one record
\* added: one user for create-user, one exercise for create-exercise; a step
\* that answers 400, 404 or 500 leaves users and exercises as they were.
C30_OnlyAcknowledgedInserts ==
  /\ [][users' # users \/ exercises' # exercises =>
          /\ resp = NoResp /\ resp'.status = 200
          /\ \/ /\ resp'.kind = "createUser"
                /\ users' = Append(users, [_id |-> resp'._id, username |-> resp'.username])
                /\ exercises' = exercises
             \/ /\ resp'.kind = "createExercise"
                /\ Len(exercises') = Len(exercises) + 1
                /\ IsPrefix(exercises, exercises')
                /\ users' = users]_vars
  /\ [][resp' # resp /\ resp'.status \in {400, 404, 500}
          => users' = users /\ exercises' = exercises]_vars
  /\ [][resp' # resp /\ resp'.status = 200 /\ resp'.kind \in {"createUser", "createExercise"}
          => Len(users') + Len(exercises') = Len(users) + Len(exercises) + 1]_vars

\* a failed save of an exercise, answered 500, next to a stored exercise
C30_Witness ==
  /\ resp.kind = "createExercise" /\ resp.status = 500 /\ resp.req.pc = "save"
  /\ Len(exercises) = 1


\* C25: the string validator, as create-user applies it to username and
\* create-exercise to description: a value that is no string is refused
\* with "Input value is not string", a string of nothing but white space
\* with "Input value is empty character string", and every other string is
\* passed on trimmed; the validator returns its own result unchanged.
C25_ParseStringThreeWay ==
  /\ resp.kind = "createUser" =>
       LET v == resp.req.raw.username
       IN /\ v.t # "string" =>
               resp.status = 400 /\ resp.message.text = "Input value is not string"
          /\ v.t = "string" /\ Blank(v) =>
               /\ resp.status = 400
               /\ resp.message.text = "Input value is empty character string"
          /\ ~Blank(v) => resp.status # 400 /\ IsTrimOf(resp.req.username, v.s)
  /\ \A r \in BagToSet(inflight) :
       /\ r.kind = "createUser" =>
            /\ IsTrimOf(r.username, r.raw.username.s)
            /\ parseString(StrV(r.username)) = Ok(StrV(r.username))
       /\ r.kind = "createExercise" =>
            /\ IsTrimOf(r.body.description, r.raw.description.s)
            /\ parseString(StrV(r.body.description)) = Ok(StrV(r.body.description))
  /\ resp.kind = "createExercise" /\ resp.req.raw._id = StrV(GenId(1)) =>
       LET v == resp.req.raw.description
       IN /\ v.t # "string" =>
               resp.status = 400 /\ resp.message.text = "Input value is not string"
          /\ v.t = "string" /\ Blank(v) =>
               /\ resp.status = 400
               /\ resp.message.text = "Input value is empty character string"

\* the description " swim " is being handled as "swim" for a stored user
C25_Witness ==
  /\ \E r \in BagToSet(inflight) :
       r.kind = "createExercise" /\ r.raw.description = Swim
         /\ r.body.description = <<"s","w","i","m">>
  /\ users # <<>>


LowerHex24(s) ==
  /\ Len(s) = 24
  /\ \A i \in 1..Len(s) : IsDigit(s[i]) \/ s[i] \in {"a","b","c","d","e","f"}

\* C26: create-exercise and list-logs go on to the store only with a path id
\* that, trimmed, is 24 lower case hexadecimal characters; every other id is
\* answered 400 "Invalid ID: ..." by the input check.
C26_IdLowercaseHex ==
  /\ \A r \in BagToSet(inflight) \cup {resp.req} :
       r.kind \in {"createExercise", "listLogs"} /\ r.pc # "none" =>
         LowerHex24(Trim(r.raw._id.s))
  /\ resp.kind \in {"createExercise", "listLogs"}
       /\ ~LowerHex24(Trim(resp.req.raw._id.s))
     => /\ resp.status = 400 /\ resp.req.pc = "none"
        /\ resp.message.text = "Invalid ID: "

\* the instant the year-only date y parses to, y being 1969, 1970 or 1971
InstantOf(d) ==
  CASE d = Y1969 -> (0 - 365) * TicksPerDay
    [] d = Y1970 -> 0
    [] d = Y1971 -> 365 * TicksPerDay

\* C27: the date of the exercise a create-exercise request stores is the
\* instant its date parses to or, when the request has no date or an empty
\* one, the time at which the document was constructed, which lies between
\* the start of the process and the time of the save.
C27_StoredDate ==
  /\ [][exercises' # exercises =>
          LET e == exercises'[Len(exercises')]
              r == resp'.req
          IN IF r.raw.date \in {Undefined, StrV(<<>>)}
               THEN e.date = r.at /\ NowStart <= r.at /\ r.at <= now
               ELSE e.date = InstantOf(r.raw.date)]_vars
  /\ [](\A e \in Range(exercises) :
          e.date \in {InstantOf(d) : d \in {Y1969, Y1970, Y1971}} \cup NowStart..now)

\* an exercise sent with an empty date is stored with the time after a tick
C27_Witness ==
  /\ resp.kind = "createExercise" /\ resp.status = 200
  /\ resp.req.raw.date = StrV(<<>>)
  /\ exercises[Len(exercises)].date = NowStart + 1

\* C28: parseLogsInput reports the first failure in the order identifier,
\* limit (not an integer, above the maximum), range (from later than to,
\* unparseable date): an invalid id gets the identifier message whatever the
\* filters, and an invalid limit gets the limit message whatever the range.
C28_ValidationOrder ==
  resp.kind = "listLogs" =>
    LET raw == resp.req.raw
        idBad == raw._id = StrV(<<"x","y","z">>)
        limitBad == raw.limit \in {StrV(<<"a">>), StrV(<<"5","1">>)}
        text == resp.message.text
    IN /\ idBad => resp.status = 400 /\ resp.message = Msg("Invalid ID: ", raw._id)
       /\ ~idBad /\ raw.limit = StrV(<<"a">>) =>
            resp.status = 400 /\ resp.message = Msg("Invalid limit: ", raw.limit)
       /\ ~idBad /\ raw.limit = StrV(<<"5","1">>) =>
            resp.status = 400 /\ resp.message = Msg("limit cannot exceed ", NumV(50))
       /\ ~idBad /\ ~limitBad /\ <<raw.from, raw.to>> \in LaterThan =>
            resp.status = 400 /\ text = "'from' cannot be later than 'to'"
       /\ ~idBad /\ ~limitBad /\ raw.from = StrV(<<"x">>) =>
            resp.status = 400 /\ text = "Invalid Date Format"

\* a valid id with an invalid limit and a reversed range
C28_Witness ==
  /\ resp.kind = "listLogs" /\ resp.status = 400
  /\ resp.req.raw._id = StrV(GenId(1))
  /\ resp.req.raw.limit = StrV(<<"a">>)
  /\ <<resp.req.raw.from, resp.req.raw.to>> = <<Y1971, Y1970>>
  /\ resp.message.text = "Invalid limit: "

\* C29: requests are handled only while the server listens, which it does
\* only after the connection attempt has succeeded; the attempt is made
\* once: from "connecting" the server goes to "listening" or to "failed"
\* and stays there, and no request handler changes that.
C29_ListenAfterConnect ==
  /\ [](server \in {"connecting", "listening", "failed"})
  /\ [](server # "listening" =>
          /\ inflight = EmptyBag /\ resp = NoResp
          /\ users = <<>> /\ exercises = <<>>)
  /\ [][server' # server => server = "connecting"]_vars
  /\ [][inflight' # inflight \/ resp' # resp => server' = server]_vars

\* a request has been answered while the server listens
C29_Witness ==
  server = "listening" /\ resp.status = 200 /\ resp.kind = "listUsers"

=============================================================================
